---- MODULE Spec2Model ----
(***************************************************************************)
(* Model of pkg/slack/service.go: the SlackService operations that         *)
(* reconcile a desired channel spec against the remote Slack channel.      *)
(*                                                                         *)
(* Every call of the remote API (s.api.X) is one atomic step.  A call of a *)
(* SlackService method is a frame fr[p]: its arguments, its locals, its    *)
(* position (pc = the remote call it is about to issue), its return value  *)
(* and the log of the remote calls it has issued so far.                   *)
(***************************************************************************)
EXTENDS Integers, Sequences, FiniteSets, TLC

VARIABLES
    remote,   \* the remote channel: name, topic, purpose, private, members
    pages,    \* the remote channel collection, as conversations.list pages it
    desired,  \* desired[p]: the channel spec caller p reconciles the remote to
    fr        \* fr[p]: the frame of caller p's current (or last) call

vars == <<remote, pages, desired, fr>>

----------------------------------------------------------------------------
(* Text.  A string is a sequence of one-character strings.                 *)

\* The tail of s after its first n characters.
Drop(s, n) == SubSeq(s, n + 1, Len(s))

StartsWith(s, pre) == Len(s) >= Len(pre) /\ SubSeq(s, 1, Len(pre)) = pre

\* An entity name may be closed by one semicolon, which is consumed with it.
SkipSemicolon(s) == IF s # <<>> /\ Head(s) = ";" THEN Tail(s) ELSE s

\* html.UnescapeString on the entities the remote platform produces
\* (amp, lt, gt; the closing semicolon is optional, as in Go); one pass,
\* left to right: the text an entity yields is not scanned again.
RECURSIVE UnescapeString(_)
UnescapeString(s) ==
    IF s = <<>> THEN <<>>
    ELSE IF Head(s) # "&" THEN <<Head(s)>> \o UnescapeString(Tail(s))
    ELSE LET rest == Tail(s) IN
         IF StartsWith(rest, <<"a", "m", "p">>)
         THEN <<"&">> \o UnescapeString(SkipSemicolon(Drop(rest, 3)))
         ELSE IF StartsWith(rest, <<"l", "t">>)
         THEN <<"<">> \o UnescapeString(SkipSemicolon(Drop(rest, 2)))
         ELSE IF StartsWith(rest, <<"g", "t">>)
         THEN <<">">> \o UnescapeString(SkipSemicolon(Drop(rest, 2)))
         ELSE <<"&">> \o UnescapeString(rest)

\* The remote platform stores text with &, < and > escaped.
RECURSIVE EscapeText(_)
EscapeText(s) ==
    IF s = <<>> THEN <<>>
    ELSE (CASE Head(s) = "&" -> <<"&", "a", "m", "p", ";">>
            [] Head(s) = "<" -> <<"&", "l", "t", ";">>
            [] Head(s) = ">" -> <<"&", "g", "t", ";">>
            [] OTHER -> <<Head(s)>>) \o EscapeText(Tail(s))

\* The texts a caller asks for, and the texts the remote may hold for them:
\* raw or escaped.
Texts == { <<"a">>, <<"&", "<">> }
StoredTexts == Texts \cup { EscapeText(t) : t \in Texts }

----------------------------------------------------------------------------
(* The remote user directory.                                              *)

Users == { "U1", "U2", "U3", "B1" }
UserEmail(u) ==
    CASE u = "U1" -> "a@co.com" [] u = "U2" -> "b@co.com" [] u = "U3" -> "c@co.com"
      [] u = "B1" -> "bot@co.com"
UserIsBot(u) == u = "B1"
\* The user the API token belongs to: inviting it answers cant_invite_self.
SelfUser == "B1"
\* The emails callers ask for; "x@co.com" is the email of no user.
Emails == { "a@co.com", "b@co.com", "bot@co.com", "x@co.com" }

----------------------------------------------------------------------------
(* Frames.                                                                 *)

Procs == { 1 }

NoSpec == [name |-> <<>>, topic |-> <<>>, description |-> <<>>,
           private |-> FALSE, users |-> <<>>]

\* A pointer result is <<>> (nil) or <<v>>.
NoFrame ==
    [op |-> "none", pc |-> "idle",
     value |-> <<>>, emails |-> <<>>, cr |-> NoSpec,
     channel |-> <<>>, ids |-> <<>>, i |-> 0, user |-> <<>>,
     errorlist |-> <<>>, cursor |-> 0,
     retChannel |-> <<>>, retErr |-> "nil", retBool |-> FALSE, retCR |-> <<>>,
     log |-> <<>>, pre |-> <<>>, repeat |-> FALSE, solo |-> TRUE]

\* A caller starts a call when it is in no call.
Idle(p) == fr[p].pc \in {"idle", "done"}

\* The record of one remote call: its argument, its error ("nil" for none)
\* and its result.
Issued(call, arg, err, res) == [call |-> call, arg |-> arg, err |-> err, res |-> res]

\* The frame of a new call of `op`: `pre` is the remote channel as the call
\* found it, `repeat` says that the caller's last call was the same call and
\* returned no error, `solo` that no other caller is in a call as it starts.
Enter(p, op, first, value, emails, cr) ==
    [NoFrame EXCEPT !.op = op, !.pc = first, !.value = value,
                    !.emails = emails, !.cr = cr,
                    !.pre = <<remote>>,
                    !.solo = \A q \in DOMAIN fr \ {p} : Idle(q),
                    !.repeat = /\ fr[p].pc = "done" /\ fr[p].op = op
                               /\ fr[p].value = value /\ fr[p].emails = emails
                               /\ fr[p].cr = cr
                               /\ fr[p].retErr = "nil" /\ fr[p].errorlist = <<>>]

\* return channel, err
Return(f, channel, err) ==
    [f EXCEPT !.pc = "done", !.retChannel = channel, !.retErr = err]

\* A remote call fails or not, whatever its arguments.
RemoteErrors == { "nil", "remote_error" }

\* GetConversationInfo answers the channel as the remote holds it, or nil.
Fetched(err) == IF err = "nil" THEN <<remote>> ELSE <<>>

----------------------------------------------------------------------------
(* SetDescription, SetTopic, RenameChannel.                                *)

\* SetDescription writing without the comparison.
DescriptionDiffers_Always(channel, description) == TRUE

DescriptionDiffers(channel, description) ==
    UnescapeString(channel.purpose) # description

\* SetTopic comparing the stored text as it is.
TopicDiffers_Raw(channel, topic) == channel.topic # topic

TopicDiffers(channel, topic) == UnescapeString(channel.topic) # topic

\* RenameChannel writing without the comparison.
NameDiffers_Always(channel, newName) == TRUE

\* The comparison the wrong way round: write when the values are equal.
NameDiffers_Inverted(channel, newName) == UnescapeString(channel.name) = newName

NameDiffers(channel, newName) == UnescapeString(channel.name) # newName

CallSetDescription(p) ==
    /\ Idle(p)
    /\ fr' = [fr EXCEPT ![p] =
                Enter(p, "SetDescription", "GetConversationInfo", desired[p].description, <<>>, NoSpec)]
    /\ UNCHANGED <<remote, pages, desired>>

SetDescriptionFetch(p) ==
    /\ fr[p].op = "SetDescription" /\ fr[p].pc = "GetConversationInfo"
    /\ \E err \in RemoteErrors :
         LET f == [fr[p] EXCEPT !.log = Append(@, Issued("GetConversationInfo", <<>>, err, Fetched(err)))]
         IN  fr' = [fr EXCEPT ![p] =
                 IF err # "nil" THEN Return(f, <<>>, err)
                 ELSE IF ~DescriptionDiffers(remote, f.value) THEN Return(f, <<remote>>, "nil")
                 ELSE [f EXCEPT !.pc = "SetPurposeOfConversation", !.channel = <<remote>>]]
    /\ UNCHANGED <<remote, pages, desired>>

SetDescriptionWrite(p) ==
    /\ fr[p].op = "SetDescription" /\ fr[p].pc = "SetPurposeOfConversation"
    /\ \E err \in RemoteErrors :
         LET f == [fr[p] EXCEPT !.log = Append(@, Issued("SetPurposeOfConversation", fr[p].value, err, <<>>))]
             written == [remote EXCEPT !.purpose = EscapeText(f.value)]
         IN  IF err # "nil"
             THEN fr' = [fr EXCEPT ![p] = Return(f, <<>>, err)] /\ UNCHANGED remote
             ELSE /\ remote' = written
                  /\ fr' = [fr EXCEPT ![p] = Return([f EXCEPT !.channel = <<written>>], <<written>>, "nil")]
    /\ UNCHANGED <<pages, desired>>

CallSetTopic(p) ==
    /\ Idle(p)
    /\ fr' = [fr EXCEPT ![p] =
                Enter(p, "SetTopic", "GetConversationInfo", desired[p].topic, <<>>, NoSpec)]
    /\ UNCHANGED <<remote, pages, desired>>

SetTopicFetch(p) ==
    /\ fr[p].op = "SetTopic" /\ fr[p].pc = "GetConversationInfo"
    /\ \E err \in RemoteErrors :
         LET f == [fr[p] EXCEPT !.log = Append(@, Issued("GetConversationInfo", <<>>, err, Fetched(err)))]
         IN  fr' = [fr EXCEPT ![p] =
                 IF err # "nil" THEN Return(f, <<>>, err)
                 ELSE IF ~TopicDiffers(remote, f.value) THEN Return(f, <<remote>>, "nil")
                 ELSE [f EXCEPT !.pc = "SetTopicOfConversation", !.channel = <<remote>>]]
    /\ UNCHANGED <<remote, pages, desired>>

SetTopicWrite(p) ==
    /\ fr[p].op = "SetTopic" /\ fr[p].pc = "SetTopicOfConversation"
    /\ \E err \in RemoteErrors :
         LET f == [fr[p] EXCEPT !.log = Append(@, Issued("SetTopicOfConversation", fr[p].value, err, <<>>))]
             written == [remote EXCEPT !.topic = EscapeText(f.value)]
         IN  IF err # "nil"
             THEN fr' = [fr EXCEPT ![p] = Return(f, <<>>, err)] /\ UNCHANGED remote
             ELSE /\ remote' = written
                  /\ fr' = [fr EXCEPT ![p] = Return([f EXCEPT !.channel = <<written>>], <<written>>, "nil")]
    /\ UNCHANGED <<pages, desired>>

CallRenameChannel(p) ==
    /\ Idle(p)
    /\ fr' = [fr EXCEPT ![p] =
                Enter(p, "RenameChannel", "GetConversationInfo", desired[p].name, <<>>, NoSpec)]
    /\ UNCHANGED <<remote, pages, desired>>

RenameChannelFetch(p) ==
    /\ fr[p].op = "RenameChannel" /\ fr[p].pc = "GetConversationInfo"
    /\ \E err \in RemoteErrors :
         LET f == [fr[p] EXCEPT !.log = Append(@, Issued("GetConversationInfo", <<>>, err, Fetched(err)))]
         IN  fr' = [fr EXCEPT ![p] =
                 IF err # "nil" THEN Return(f, <<>>, err)
                 ELSE IF ~NameDiffers(remote, f.value) THEN Return(f, <<remote>>, "nil")
                 ELSE [f EXCEPT !.pc = "RenameConversation", !.channel = <<remote>>]]
    /\ UNCHANGED <<remote, pages, desired>>

RenameChannelWrite(p) ==
    /\ fr[p].op = "RenameChannel" /\ fr[p].pc = "RenameConversation"
    /\ \E err \in RemoteErrors :
         LET f == [fr[p] EXCEPT !.log = Append(@, Issued("RenameConversation", fr[p].value, err, <<>>))]
             written == [remote EXCEPT !.name = EscapeText(f.value)]
         IN  IF err # "nil"
             THEN fr' = [fr EXCEPT ![p] = Return(f, <<>>, err)] /\ UNCHANGED remote
             ELSE /\ remote' = written
                  /\ fr' = [fr EXCEPT ![p] = Return([f EXCEPT !.channel = <<written>>], <<written>>, "nil")]
    /\ UNCHANGED <<pages, desired>>

----------------------------------------------------------------------------
(* Specification of the attribute setters, one caller.                     *)

InitFrames == fr = [p \in Procs |-> NoFrame]

\* The specs a caller may hold.
Specs(names, topics, descriptions, privates, users) ==
    [name : names, topic : topics, description : descriptions,
     private : privates, users : users]

InitSetters ==
    /\ remote \in [name : StoredTexts, topic : StoredTexts, purpose : StoredTexts,
                   private : {FALSE}, members : {<<"U1">>}]
    /\ pages = <<>>
    /\ desired \in [Procs -> Specs(Texts, Texts, Texts, {FALSE}, {<<"a@co.com">>})]
    /\ InitFrames

NextSetters ==
    \E p \in Procs :
        \/ CallSetDescription(p) \/ SetDescriptionFetch(p) \/ SetDescriptionWrite(p)
        \/ CallSetTopic(p) \/ SetTopicFetch(p) \/ SetTopicWrite(p)
        \/ CallRenameChannel(p) \/ RenameChannelFetch(p) \/ RenameChannelWrite(p)

SpecSetters == InitSetters /\ [][NextSetters]_vars

----------------------------------------------------------------------------
(* The remote API on users and membership.                                 *)

MaxEmails == 3

BoundedSeq(S, n) == UNION { [1..k -> S] : k \in 0..n }

\* The member lists the remote may hold: each user at most once.
MemberLists ==
    { s \in BoundedSeq(Users, Cardinality(Users)) :
        \A j, k \in 1..Len(s) : j # k => s[j] # s[k] }

\* slack.User, as far as the service reads it.
UserRecord(u) == [id |-> u, email |-> UserEmail(u), isBot |-> UserIsBot(u)]

\* users.lookupByEmail: <<err, user>>.  It fails for an email of no user, and
\* may fail for any.
LookupOutcomes(email) ==
    { <<"remote_error", <<>>>> } \cup
    (IF \E u \in Users : UserEmail(u) = email
     THEN { <<"nil", <<UserRecord(u)>>>> : u \in { v \in Users : UserEmail(v) = email } }
     ELSE { <<"users_not_found", <<>>>> })

\* conversations.invite: the errors it may answer for user u.
InviteOutcomes(u) ==
    { "remote_error" } \cup
    (IF u = SelfUser THEN { "cant_invite_self" }
     ELSE IF \E k \in 1..Len(remote.members) : remote.members[k] = u
     THEN { "already_in_channel" }
     ELSE { "nil" })

\* conversations.kick: the errors it may answer for user u.
KickOutcomes(u) ==
    { "remote_error" } \cup
    (IF \E k \in 1..Len(remote.members) : remote.members[k] = u
     THEN { "nil" } ELSE { "not_in_channel" })

Without(members, u) == SelectSeq(members, LAMBDA m : m # u)

----------------------------------------------------------------------------
(* InviteUsers.                                                            *)

\* for _, email := range userEmails: the next email, or return errorlist.
InviteNext(f) ==
    IF f.i + 1 > Len(f.emails)
    THEN [f EXCEPT !.pc = "done", !.i = f.i + 1, !.user = <<>>]
    ELSE [f EXCEPT !.pc = "GetUserByEmail", !.i = f.i + 1, !.user = <<>>]

LookupError(email) == [msg |-> "Error fetching user by Email", email |-> email]
InviteError(err) == [msg |-> err, email |-> ""]

\* InviteUsers recording every invite error.
InviteErrorRecorded_All(err) == err # "nil"

\* The invite errors that go to the error list.
InviteErrorRecorded(err) ==
    err # "nil" /\ err # "already_in_channel" /\ err # "cant_invite_self"

\* What the loop does when the lookup of f.emails[f.i] failed.
InviteLookupFailed(f) ==
    InviteNext([f EXCEPT !.errorlist = Append(@, LookupError(f.emails[f.i]))])

CallInviteUsers(p) ==
    /\ Idle(p)
    /\ fr' = [fr EXCEPT ![p] =
                  InviteNext(Enter(p, "InviteUsers", "range", <<>>, desired[p].users, NoSpec))]
    /\ UNCHANGED <<remote, pages, desired>>

InviteUsersLookup(p) ==
    /\ fr[p].op = "InviteUsers" /\ fr[p].pc = "GetUserByEmail"
    /\ \E out \in LookupOutcomes(fr[p].emails[fr[p].i]) :
         LET f == [fr[p] EXCEPT !.log = Append(@, Issued("GetUserByEmail", fr[p].emails[fr[p].i], out[1], out[2]))]
         IN  fr' = [fr EXCEPT ![p] =
                 IF out[1] # "nil" THEN InviteLookupFailed(f)
                 ELSE [f EXCEPT !.pc = "InviteUsersToConversation", !.user = out[2]]]
    /\ UNCHANGED <<remote, pages, desired>>

InviteUsersInvite(p) ==
    /\ fr[p].op = "InviteUsers" /\ fr[p].pc = "InviteUsersToConversation"
    /\ \E err \in InviteOutcomes(fr[p].user[1].id) :
         LET u == fr[p].user[1].id
             f == [fr[p] EXCEPT !.log = Append(@, Issued("InviteUsersToConversation", u, err, <<>>))]
         IN  /\ remote' = IF err = "nil" THEN [remote EXCEPT !.members = Append(@, u)] ELSE remote
             /\ fr' = [fr EXCEPT ![p] =
                     IF InviteErrorRecorded(err)
                     THEN InviteNext([f EXCEPT !.errorlist = Append(@, InviteError(err))])
                     ELSE InviteNext(f)]
    /\ UNCHANGED <<pages, desired>>

----------------------------------------------------------------------------
(* RemoveUsers.                                                            *)

\* The member's email compared with the first desired email only.
EmailFound_FirstOnly(userEmails, user) ==
    userEmails # <<>> /\ userEmails[1] = user.email

\* for _, email := range userEmails { if email == user.Profile.Email ... }
EmailFound(userEmails, user) ==
    \E k \in 1..Len(userEmails) : userEmails[k] = user.email

\* RemoveUsers without the bot check.
ShouldKick_NoBotCheck(user, userEmails) == ~EmailFound(userEmails, user)

\* The member is kicked: it is no bot and its email is not wanted.
ShouldKick(user, userEmails) == ~user.isBot /\ ~EmailFound(userEmails, user)

\* for _, userId := range channelUserIDs: the next member, or return nil.
RemoveNext(f) ==
    IF f.i + 1 > Len(f.ids)
    THEN [f EXCEPT !.pc = "done", !.i = f.i + 1, !.user = <<>>, !.retErr = "nil"]
    ELSE [f EXCEPT !.pc = "GetUserInfo", !.i = f.i + 1, !.user = <<>>]

\* RemoveUsers going on to the next member after a failure.
RemoveFailed_Continue(f, err) == RemoveNext(f)

\* if err != nil { return err }
RemoveFailed(f, err) == [f EXCEPT !.pc = "done", !.retErr = err]

CallRemoveUsers(p) ==
    /\ Idle(p)
    /\ fr' = [fr EXCEPT ![p] =
                  Enter(p, "RemoveUsers", "GetUsersInConversation", <<>>, desired[p].users, NoSpec)]
    /\ UNCHANGED <<remote, pages, desired>>

RemoveUsersList(p) ==
    /\ fr[p].op = "RemoveUsers" /\ fr[p].pc = "GetUsersInConversation"
    /\ \E err \in RemoteErrors :
         LET ids == IF err = "nil" THEN remote.members ELSE <<>>
             f == [fr[p] EXCEPT !.log = Append(@, Issued("GetUsersInConversation", <<>>, err, ids)),
                                !.ids = ids]
         IN  fr' = [fr EXCEPT ![p] =
                 IF err # "nil" THEN RemoveFailed(f, err) ELSE RemoveNext(f)]
    /\ UNCHANGED <<remote, pages, desired>>

RemoveUsersInfo(p) ==
    /\ fr[p].op = "RemoveUsers" /\ fr[p].pc = "GetUserInfo"
    /\ \E err \in RemoteErrors :
         LET userId == fr[p].ids[fr[p].i]
             user == UserRecord(userId)
             f == [fr[p] EXCEPT !.log = Append(@, Issued("GetUserInfo", userId, err, <<>>))]
         IN  fr' = [fr EXCEPT ![p] =
                 IF err # "nil" THEN RemoveFailed(f, err)
                 ELSE IF ShouldKick(user, f.emails)
                 THEN [f EXCEPT !.pc = "KickUserFromConversation", !.user = <<user>>]
                 ELSE RemoveNext(f)]
    /\ UNCHANGED <<remote, pages, desired>>

RemoveUsersKick(p) ==
    /\ fr[p].op = "RemoveUsers" /\ fr[p].pc = "KickUserFromConversation"
    /\ \E err \in KickOutcomes(fr[p].user[1].id) :
         LET u == fr[p].user[1].id
             f == [fr[p] EXCEPT !.log = Append(@, Issued("KickUserFromConversation", u, err, <<>>))]
         IN  /\ remote' = IF err = "nil" THEN [remote EXCEPT !.members = Without(@, u)] ELSE remote
             /\ fr' = [fr EXCEPT ![p] =
                     IF err # "nil" THEN RemoveFailed(f, err) ELSE RemoveNext(f)]
    /\ UNCHANGED <<pages, desired>>

----------------------------------------------------------------------------
(* Specification of the membership synchronizer, one caller.               *)

InitMembers ==
    /\ remote \in [name : {<<"a">>}, topic : {<<"a">>}, purpose : {<<"a">>},
                   private : {FALSE}, members : MemberLists]
    /\ pages = <<>>
    /\ desired \in [Procs -> Specs({<<"a">>}, {<<"a">>}, {<<"a">>}, {FALSE},
                                   BoundedSeq(Emails, MaxEmails))]
    /\ InitFrames

NextMembers ==
    \E p \in Procs :
        \/ CallInviteUsers(p) \/ InviteUsersLookup(p) \/ InviteUsersInvite(p)
        \/ CallRemoveUsers(p) \/ RemoveUsersList(p) \/ RemoveUsersInfo(p)
        \/ RemoveUsersKick(p)

SpecMembers == InitMembers /\ [][NextMembers]_vars

----------------------------------------------------------------------------
(* IsChannelUpdated.                                                       *)

MaxDesiredUsers == 2

\* return bool, err
ReturnBool(f, updated, err) ==
    [f EXCEPT !.pc = "done", !.retBool = updated, !.retErr = err]

\* IsChannelUpdated without the name check.
TextDrift_NoName(existingChannel, cr) ==
    \/ UnescapeString(existingChannel.topic) # cr.topic
    \/ UnescapeString(existingChannel.purpose) # cr.description

\* IsChannelUpdated comparing the stored texts as they are.
TextDrift_Raw(existingChannel, cr) ==
    \/ existingChannel.name # cr.name
    \/ existingChannel.topic # cr.topic
    \/ existingChannel.purpose # cr.description

\* The three text checks, each on the unescaped stored text.
TextDrift(existingChannel, cr) ==
    \/ UnescapeString(existingChannel.name) # cr.name
    \/ UnescapeString(existingChannel.topic) # cr.topic
    \/ UnescapeString(existingChannel.purpose) # cr.description

\* for _, id := range channelUserIDs { if user.ID == id ... }
IdFound(channelUserIDs, user) ==
    \E k \in 1..Len(channelUserIDs) : channelUserIDs[k] = user.id

\* IsChannelUpdated without the bot check.
MemberUnwanted_NoBotCheck(user, userEmails) ==
    ~\E k \in 1..Len(userEmails) : userEmails[k] = user.email

\* A member that is no bot and whose email is not in the spec.
MemberUnwanted(user, userEmails) ==
    /\ ~user.isBot
    /\ ~\E k \in 1..Len(userEmails) : userEmails[k] = user.email

\* "Checking if the user is removed": the next member, or return false, nil.
UpdatedNextMember(f) ==
    IF f.i + 1 > Len(f.ids)
    THEN ReturnBool([f EXCEPT !.i = f.i + 1], FALSE, "nil")
    ELSE [f EXCEPT !.pc = "GetUserInfo", !.i = f.i + 1]

\* "Checking if the user is added": the next email, or on to the members.
UpdatedNextEmail(f) ==
    IF f.i + 1 > Len(f.cr.users)
    THEN UpdatedNextMember([f EXCEPT !.i = 0])
    ELSE [f EXCEPT !.pc = "GetUserByEmail", !.i = f.i + 1]

\* IsChannelUpdated logging a failed lookup and going on.
UpdatedLookupFailed_Skip(f, err) == UpdatedNextEmail(f)

\* The lookup of an email of the spec failed: return false, err.
UpdatedLookupFailed(f, err) == ReturnBool(f, FALSE, err)

CallIsChannelUpdated(p) ==
    /\ Idle(p)
    /\ fr' = [fr EXCEPT ![p] =
                Enter(p, "IsChannelUpdated", "GetConversationInfo", <<>>, <<>>, desired[p])]
    /\ UNCHANGED <<remote, pages, desired>>

IsChannelUpdatedFetch(p) ==
    /\ fr[p].op = "IsChannelUpdated" /\ fr[p].pc = "GetConversationInfo"
    /\ \E err \in RemoteErrors :
         LET f == [fr[p] EXCEPT !.log = Append(@, Issued("GetConversationInfo", <<>>, err, Fetched(err))),
                                !.channel = Fetched(err)]
         IN  fr' = [fr EXCEPT ![p] =
                 IF err # "nil" THEN ReturnBool(f, FALSE, err)
                 ELSE IF TextDrift(remote, f.cr) THEN ReturnBool(f, TRUE, "nil")
                 ELSE [f EXCEPT !.pc = "GetUsersInConversation"]]
    /\ UNCHANGED <<remote, pages, desired>>

IsChannelUpdatedList(p) ==
    /\ fr[p].op = "IsChannelUpdated" /\ fr[p].pc = "GetUsersInConversation"
    /\ \E err \in RemoteErrors :
         LET ids == IF err = "nil" THEN remote.members ELSE <<>>
             f == [fr[p] EXCEPT !.log = Append(@, Issued("GetUsersInConversation", <<>>, err, ids)),
                                !.ids = ids]
         IN  fr' = [fr EXCEPT ![p] =
                 IF err # "nil" THEN ReturnBool(f, FALSE, err) ELSE UpdatedNextEmail(f)]
    /\ UNCHANGED <<remote, pages, desired>>

IsChannelUpdatedLookup(p) ==
    /\ fr[p].op = "IsChannelUpdated" /\ fr[p].pc = "GetUserByEmail"
    /\ \E out \in LookupOutcomes(fr[p].cr.users[fr[p].i]) :
         LET f == [fr[p] EXCEPT !.log = Append(@, Issued("GetUserByEmail", fr[p].cr.users[fr[p].i], out[1], out[2]))]
         IN  fr' = [fr EXCEPT ![p] =
                 IF out[1] # "nil" THEN UpdatedLookupFailed(f, out[1])
                 ELSE IF ~IdFound(f.ids, out[2][1]) THEN ReturnBool(f, TRUE, "nil")
                 ELSE UpdatedNextEmail(f)]
    /\ UNCHANGED <<remote, pages, desired>>

\* IsChannelUpdated with the kick of RemoveUsers' loop left in its own.
IsChannelUpdatedInfo_Kick(p) ==
    /\ fr[p].op = "IsChannelUpdated" /\ fr[p].pc = "GetUserInfo"
    /\ \E err \in RemoteErrors :
         LET userId == fr[p].ids[fr[p].i]
             f == [fr[p] EXCEPT !.log = Append(@, Issued("GetUserInfo", userId, err, <<>>))]
             unwanted == err = "nil" /\ MemberUnwanted(UserRecord(userId), f.cr.users)
             g == [f EXCEPT !.log = Append(@, Issued("KickUserFromConversation", userId, "nil", <<>>))]
         IN  /\ fr' = [fr EXCEPT ![p] =
                     IF err # "nil" THEN ReturnBool(f, FALSE, err)
                     ELSE IF unwanted THEN ReturnBool(g, TRUE, "nil")
                     ELSE UpdatedNextMember(f)]
             /\ remote' = IF unwanted THEN [remote EXCEPT !.members = Without(@, userId)]
                           ELSE remote
    /\ UNCHANGED <<pages, desired>>

IsChannelUpdatedInfo(p) ==
    /\ fr[p].op = "IsChannelUpdated" /\ fr[p].pc = "GetUserInfo"
    /\ \E err \in RemoteErrors :
         LET userId == fr[p].ids[fr[p].i]
             f == [fr[p] EXCEPT !.log = Append(@, Issued("GetUserInfo", userId, err, <<>>))]
         IN  fr' = [fr EXCEPT ![p] =
                 IF err # "nil" THEN ReturnBool(f, FALSE, err)
                 ELSE IF MemberUnwanted(UserRecord(userId), f.cr.users) THEN ReturnBool(f, TRUE, "nil")
                 ELSE UpdatedNextMember(f)]
    /\ UNCHANGED <<remote, pages, desired>>

----------------------------------------------------------------------------
(* Specification of the drift detector, one caller.  The initial states    *)
(* are every stored text against every desired text, for one membership,  *)
(* and every membership against every desired member list, for the texts  *)
(* of the spec as the remote stores them.                                  *)

InitDrift ==
    /\ \/ /\ remote \in [name : StoredTexts, topic : StoredTexts, purpose : StoredTexts,
                         private : {FALSE}, members : {<<"U1", "B1">>}]
          /\ desired \in [Procs -> Specs(Texts, Texts, Texts, {FALSE}, {<<"a@co.com">>})]
       \/ \E d \in Specs(Texts, Texts, Texts, {FALSE}, BoundedSeq(Emails, MaxDesiredUsers)) :
            /\ desired = [p \in Procs |-> d]
            /\ remote \in [name : {EscapeText(d.name)}, topic : {EscapeText(d.topic)},
                           purpose : {EscapeText(d.description)},
                           private : {FALSE}, members : MemberLists]
    /\ pages = <<>>
    /\ InitFrames

NextDrift ==
    \E p \in Procs :
        \/ CallIsChannelUpdated(p) \/ IsChannelUpdatedFetch(p) \/ IsChannelUpdatedList(p)
        \/ IsChannelUpdatedLookup(p) \/ IsChannelUpdatedInfo(p)

SpecDrift == InitDrift /\ [][NextDrift]_vars

----------------------------------------------------------------------------
(* GetChannelByName.                                                       *)

MaxPages == 3
MaxPageLen == 2

ChannelAlreadyExistsError == "A channel with the same name already exists"

\* The cursor that names page k of the collection: the empty string for the
\* first page, a string of k-1 characters for page k.
CursorOfPage(k) == [j \in 1..(k - 1) |-> "c"]
PageOfCursor(cursor) == Len(cursor) + 1

\* conversations.list: the channels of the page the cursor names, and the
\* cursor of the page after it, empty after the last page.
ListedChannels(cursor) ==
    LET k == PageOfCursor(cursor) IN
    [j \in 1..Len(pages[k]) |-> [id |-> <<k, j>>, name |-> pages[k][j]]]

ListedNextCursor(cursor) ==
    IF PageOfCursor(cursor) < Len(pages) THEN CursorOfPage(PageOfCursor(cursor) + 1)
    ELSE <<>>

\* for _, channel := range channels { if channel.Name == name ... }
Matches(channels, name) == { j \in 1..Len(channels) : channels[j].name = name }

FirstMatch(channels, name) ==
    channels[CHOOSE j \in Matches(channels, name) :
                 \A k \in Matches(channels, name) : j <= k]

\* GetChannelByName never breaking out of its loop.
AfterPage_NoBreak(f, channels, nextCursor) ==
    IF Matches(channels, f.value) # {}
    THEN Return(f, <<FirstMatch(channels, f.value)>>, "nil")
    ELSE [f EXCEPT !.cursor = nextCursor]

\* GetChannelByName going on without taking the cursor the page answered.
AfterPage_KeepCursor(f, channels, nextCursor) ==
    IF Matches(channels, f.value) # {}
    THEN Return(f, <<FirstMatch(channels, f.value)>>, "nil")
    ELSE IF nextCursor = <<>>
    THEN Return(f, <<>>, ChannelAlreadyExistsError)
    ELSE f

\* The loop body after a page has come: return the first match, or leave the
\* loop on the empty cursor, or go on with the cursor.
AfterPage(f, channels, nextCursor) ==
    IF Matches(channels, f.value) # {}
    THEN Return(f, <<FirstMatch(channels, f.value)>>, "nil")
    ELSE IF nextCursor = <<>>
    THEN Return(f, <<>>, ChannelAlreadyExistsError)
    ELSE [f EXCEPT !.cursor = nextCursor]

CallGetChannelByName(p) ==
    /\ Idle(p)
    /\ fr' = [fr EXCEPT ![p] =
                [Enter(p, "GetChannelByName", "GetConversations", desired[p].name, <<>>, NoSpec)
                   EXCEPT !.cursor = <<>>]]
    /\ UNCHANGED <<remote, pages, desired>>

GetChannelByNamePage(p) ==
    /\ fr[p].op = "GetChannelByName" /\ fr[p].pc = "GetConversations"
    /\ \E err \in RemoteErrors :
         LET channels == IF err = "nil" THEN ListedChannels(fr[p].cursor) ELSE <<>>
             nextCursor == IF err = "nil" THEN ListedNextCursor(fr[p].cursor) ELSE <<>>
             f == [fr[p] EXCEPT !.log = Append(@, Issued("GetConversations", fr[p].cursor, err,
                                          [channels |-> channels, nextCursor |-> nextCursor]))]
         IN  fr' = [fr EXCEPT ![p] =
                 IF err # "nil" THEN Return(f, <<>>, err)
                 ELSE AfterPage(f, channels, nextCursor)]
    /\ UNCHANGED <<remote, pages, desired>>

----------------------------------------------------------------------------
(* Specification of the channel finder, one caller: every collection of    *)
(* one to MaxPages pages of at most MaxPageLen channels.                   *)

TheChannel == [name |-> <<"a">>, topic |-> <<"a">>, purpose |-> <<"a">>,
               private |-> FALSE, members |-> <<"U1">>]

InitFinder ==
    /\ remote = TheChannel
    /\ pages \in { ps \in BoundedSeq(BoundedSeq(Texts, MaxPageLen), MaxPages) : ps # <<>> }
    /\ desired \in [Procs -> Specs(Texts, {<<"a">>}, {<<"a">>}, {FALSE}, {<<"a@co.com">>})]
    /\ InitFrames

NextFinder ==
    \E p \in Procs : CallGetChannelByName(p) \/ GetChannelByNamePage(p)

SpecFinder == InitFinder /\ [][NextFinder]_vars

----------------------------------------------------------------------------
(* IsValidChannel.                                                         *)

\* IsValidChannel rejecting a single user too.
UsersMissing_OffByOne(cr) == Len(cr.users) <= 1

\* len(channel.Spec.Users) < 1
UsersMissing(cr) == Len(cr.users) < 1

CallIsValidChannel(p) ==
    /\ Idle(p)
    /\ fr' = [fr EXCEPT ![p] =
                [Enter(p, "IsValidChannel", "done", <<>>, <<>>, desired[p])
                   EXCEPT !.retErr = IF UsersMissing(desired[p])
                                     THEN "Users can not be empty" ELSE "nil"]]
    /\ UNCHANGED <<remote, pages, desired>>

\* Specification of the validation, one caller: every spec.
InitValidate ==
    /\ remote = TheChannel
    /\ pages = <<>>
    /\ desired \in [Procs -> Specs(Texts, Texts, Texts, BOOLEAN,
                                   BoundedSeq(Emails, MaxEmails))]
    /\ InitFrames

NextValidate == \E p \in Procs : CallIsValidChannel(p)

SpecValidate == InitValidate /\ [][NextValidate]_vars

----------------------------------------------------------------------------
(* One reconciliation pass of the caller, as the spec describes it: ask the *)
(* drift detector, run the corrective operations with the desired values,  *)
(* ask the drift detector again.  Call k of the pass is frame fr[k]; a     *)
(* remote failure ends the pass.                                           *)

PassCalls == 1..7

\* Call k may start: it has not, and the call before it returned no error.
PassReady(k) ==
    /\ fr[k].pc = "idle"
    /\ k > 1 => /\ fr[k-1].pc = "done"
                /\ fr[k-1].retErr = "nil"
                /\ fr[k-1].errorlist = <<>>

PassCheck         == PassReady(1) /\ CallIsChannelUpdated(1)
PassRename        == PassReady(2) /\ CallRenameChannel(2)
PassSetTopic      == PassReady(3) /\ CallSetTopic(3)
PassSetDescription == PassReady(4) /\ CallSetDescription(4)
PassInvite        == PassReady(5) /\ CallInviteUsers(5)
PassRemove        == PassReady(6) /\ CallRemoveUsers(6)
PassRecheck       == PassReady(7) /\ CallIsChannelUpdated(7)

PassStep ==
    \E p \in PassCalls :
        \/ RenameChannelFetch(p) \/ RenameChannelWrite(p)
        \/ SetTopicFetch(p) \/ SetTopicWrite(p)
        \/ SetDescriptionFetch(p) \/ SetDescriptionWrite(p)
        \/ InviteUsersLookup(p) \/ InviteUsersInvite(p)
        \/ RemoveUsersList(p) \/ RemoveUsersInfo(p) \/ RemoveUsersKick(p)
        \/ IsChannelUpdatedFetch(p) \/ IsChannelUpdatedList(p)
        \/ IsChannelUpdatedLookup(p) \/ IsChannelUpdatedInfo(p)

\* The end-to-end scenario: team-x, topic "launch" against "Launch &amp;co".
ScenarioName == <<"t", "e", "a", "m", "-", "x">>
ScenarioSpec ==
    [name |-> ScenarioName, topic |-> <<"l", "a", "u", "n", "c", "h">>,
     description |-> <<>>, private |-> TRUE, users |-> <<"a@co.com">>]
ScenarioChannel ==
    [name |-> ScenarioName,
     topic |-> <<"L", "a", "u", "n", "c", "h", " ", "&", "a", "m", "p", ";", "c", "o">>,
     purpose |-> <<>>, private |-> TRUE, members |-> <<"U1">>]

\* The initial states: the scenario; every stored text against every desired
\* text, for one membership; every membership against every desired member
\* list, for one text.
InitPass ==
    /\ \/ /\ remote = ScenarioChannel
          /\ desired = [k \in PassCalls |-> ScenarioSpec]
       \/ /\ remote \in [name : StoredTexts, topic : StoredTexts, purpose : StoredTexts,
                         private : {FALSE}, members : {<<"U1", "B1">>}]
          /\ \E d \in Specs(Texts, Texts, Texts, {FALSE}, {<<"a@co.com">>}) :
               desired = [k \in PassCalls |-> d]
       \/ /\ remote \in [name : {<<"a">>}, topic : {<<"a">>}, purpose : {<<"a">>},
                         private : {FALSE}, members : MemberLists]
          /\ \E d \in Specs({<<"a">>}, {<<"a">>}, {<<"a">>}, {FALSE},
                            BoundedSeq(Emails, MaxDesiredUsers)) :
               desired = [k \in PassCalls |-> d]
    /\ pages = <<>>
    /\ fr = [k \in PassCalls |-> NoFrame]

NextPass ==
    \/ PassCheck \/ PassRename \/ PassSetTopic \/ PassSetDescription
    \/ PassInvite \/ PassRemove \/ PassRecheck
    \/ PassStep

SpecPass == InitPass /\ [][NextPass]_vars

----------------------------------------------------------------------------
(* Two reconciliations of the same channel at once: the service keeps no   *)
(* state and takes no lock, so the remote calls of two callers' SetTopic   *)
(* and RenameChannel interleave freely.                                    *)

Reconcilers == {1, 2}

\* The stored texts of the two-caller runs: one a caller may ask for, one
\* that is the escaped form of one, and one that neither caller asks for.
RacedTexts == { <<"a">>, EscapeText(<<"&", "<">>), <<"b">> }

InitConcurrent ==
    /\ remote \in [name : RacedTexts, topic : RacedTexts, purpose : {<<"a">>},
                   private : {FALSE}, members : {<<"U1", "B1">>}]
    /\ desired \in [Reconcilers -> Specs(Texts, Texts, {<<"a">>}, {FALSE}, {<<"a@co.com">>})]
    /\ pages = <<>>
    /\ fr = [p \in Reconcilers |-> NoFrame]

NextConcurrent ==
    \E p \in Reconcilers :
        \/ CallSetTopic(p) \/ SetTopicFetch(p) \/ SetTopicWrite(p)
        \/ CallRenameChannel(p) \/ RenameChannelFetch(p) \/ RenameChannelWrite(p)

SpecConcurrent == InitConcurrent /\ [][NextConcurrent]_vars

----------------------------------------------------------------------------
(* GetChannelCRFromChannel.                                                *)

\* GetChannelCRFromChannel unescaping the texts, as the comparisons do.
ChannelCR_Unescaped(existingChannel) ==
    [name |-> UnescapeString(existingChannel.name),
     description |-> UnescapeString(existingChannel.purpose),
     topic |-> UnescapeString(existingChannel.topic),
     private |-> existingChannel.private,
     users |-> existingChannel.members]

\* var channel slackv1alpha1.Channel, its Spec filled field by field.
ChannelCR(existingChannel) ==
    [name |-> existingChannel.name,
     description |-> existingChannel.purpose,
     topic |-> existingChannel.topic,
     private |-> existingChannel.private,
     users |-> existingChannel.members]

\* The caller passes the channel it observed; no remote call is made.
GetChannelCRFromChannel(p) ==
    /\ Idle(p)
    /\ LET f == Enter(p, "GetChannelCRFromChannel", "done", <<>>, <<>>, NoSpec)
       IN  fr' = [fr EXCEPT ![p] =
                    [f EXCEPT !.channel = <<remote>>, !.retCR = <<ChannelCR(remote)>>]]
    /\ UNCHANGED <<remote, pages, desired>>

InitProject ==
    /\ remote \in [name : StoredTexts, topic : StoredTexts, purpose : StoredTexts,
                   private : BOOLEAN, members : MemberLists]
    /\ desired \in [Procs -> Specs(Texts, {<<"a">>}, {<<"a">>}, {FALSE}, {<<"a@co.com">>})]
    /\ pages = <<>>
    /\ InitFrames

NextProject == \E p \in Procs : GetChannelCRFromChannel(p)

SpecProject == InitProject /\ [][NextProject]_vars

----------------------------------------------------------------------------
(* GetChannel, GetUsersInChannel.                                          *)

CallGetChannel(p) ==
    /\ Idle(p)
    /\ fr' = [fr EXCEPT ![p] =
                Enter(p, "GetChannel", "GetConversationInfo", <<>>, <<>>, NoSpec)]
    /\ UNCHANGED <<remote, pages, desired>>

\* return nil, err on a failure; return channel, err otherwise.
GetChannelFetch(p) ==
    /\ fr[p].op = "GetChannel" /\ fr[p].pc = "GetConversationInfo"
    /\ \E err \in RemoteErrors :
         LET f == [fr[p] EXCEPT !.log = Append(@, Issued("GetConversationInfo", <<>>, err, Fetched(err)))]
         IN  fr' = [fr EXCEPT ![p] = Return(f, Fetched(err), err)]
    /\ UNCHANGED <<remote, pages, desired>>

CallGetUsersInChannel(p) ==
    /\ Idle(p)
    /\ fr' = [fr EXCEPT ![p] =
                Enter(p, "GetUsersInChannel", "GetUsersInConversation", <<>>, <<>>, NoSpec)]
    /\ UNCHANGED <<remote, pages, desired>>

\* return userIDs, err: whatever the remote call answered.
GetUsersInChannelList(p) ==
    /\ fr[p].op = "GetUsersInChannel" /\ fr[p].pc = "GetUsersInConversation"
    /\ \E err \in RemoteErrors :
         LET ids == IF err = "nil" THEN remote.members ELSE <<>>
             f == [fr[p] EXCEPT !.log = Append(@, Issued("GetUsersInConversation", <<>>, err, ids)),
                                !.ids = ids]
         IN  fr' = [fr EXCEPT ![p] = Return(f, <<>>, err)]
    /\ UNCHANGED <<remote, pages, desired>>

----------------------------------------------------------------------------
(* Specification of the operations that only read, one caller calling them *)
(* in any order: every membership against every desired member list, and   *)
(* three channel collections against both names.                           *)

ReadPages ==
    { << << <<"a">> >> >>,
      << << <<"&", "<">> >>, << <<"a">>, <<"&", "<">> >> >>,
      << << >>, << <<"&", "<">> >> >> }

InitReadOnly ==
    /\ \/ /\ remote \in [name : {<<"a">>}, topic : {<<"a">>}, purpose : {<<"a">>},
                         private : {FALSE}, members : MemberLists]
          /\ desired \in [Procs -> Specs({<<"a">>}, {<<"a">>}, {<<"a">>}, {FALSE},
                                         BoundedSeq(Emails, MaxDesiredUsers))]
          /\ pages \in { << << <<"a">> >> >> }
       \/ /\ remote \in [name : {<<"a">>}, topic : StoredTexts, purpose : {<<"a">>},
                         private : {FALSE}, members : {<<"U1", "B1">>}]
          /\ desired \in [Procs -> Specs(Texts, Texts, {<<"a">>}, {FALSE}, {<<"a@co.com">>})]
          /\ pages \in ReadPages
    /\ InitFrames

NextReadOnly ==
    \E p \in Procs :
        \/ CallIsChannelUpdated(p) \/ IsChannelUpdatedFetch(p) \/ IsChannelUpdatedList(p)
        \/ IsChannelUpdatedLookup(p) \/ IsChannelUpdatedInfo(p)
        \/ CallGetChannel(p) \/ GetChannelFetch(p)
        \/ CallGetChannelByName(p) \/ GetChannelByNamePage(p)
        \/ CallGetUsersInChannel(p) \/ GetUsersInChannelList(p)

SpecReadOnly == InitReadOnly /\ [][NextReadOnly]_vars

----------------------------------------------------------------------------
(* Claims.                                                                 *)

SetterOps == { "SetDescription", "SetTopic", "RenameChannel" }

WriteCalls == { "SetPurposeOfConversation", "SetTopicOfConversation",
                "RenameConversation" }

\* The stored attribute a setter is about.
StoredAttr(op, channel) ==
    CASE op = "SetDescription" -> channel.purpose
      [] op = "SetTopic" -> channel.topic
      [] op = "RenameChannel" -> channel.name

MemberSet(members) == { members[k] : k \in 1..Len(members) }

\* C1: a setter whose fetch succeeds and finds the unescaped stored value
\* equal to the requested one issues no write, leaves the remote channel as
\* it was and returns the fetched channel with a nil error; and a call that
\* repeats the caller's last, successful call issues no write.
C1_SetterIdempotent ==
    \A p \in Procs :
        LET f == fr[p] IN
        f.op \in SetterOps =>
            /\ ( /\ f.log # <<>>
                 /\ f.log[1].err = "nil"
                 /\ UnescapeString(StoredAttr(f.op, f.log[1].res[1])) = f.value )
               => /\ f.pc = "done"
                  /\ Len(f.log) = 1
                  /\ remote = f.pre[1]
                  /\ f.retChannel = f.log[1].res
                  /\ f.retErr = "nil"
            /\ f.repeat => \A k \in 1..Len(f.log) : f.log[k].call \notin WriteCalls

\* A repeated SetTopic that found the escaped form of its value and wrote
\* nothing.
W_C1 ==
    \E p \in Procs :
        /\ fr[p].op = "SetTopic" /\ fr[p].pc = "done" /\ fr[p].repeat
        /\ Len(fr[p].log) = 1 /\ fr[p].log[1].err = "nil"
        /\ remote.topic # fr[p].value
        /\ fr[p].retErr = "nil"

IsLookup(e) == e.call = "GetUserByEmail"

\* The error list InviteUsers owes for the remote calls of log.
RECURSIVE InviteErrorsOwed(_)
InviteErrorsOwed(log) ==
    IF log = <<>> THEN <<>>
    ELSE LET e == Head(log) IN
         (IF e.call = "GetUserByEmail" /\ e.err # "nil"
          THEN << [msg |-> "Error fetching user by Email", email |-> e.arg] >>
          ELSE IF /\ e.call = "InviteUsersToConversation"
                  /\ e.err \notin {"nil", "already_in_channel", "cant_invite_self"}
          THEN << [msg |-> e.err, email |-> ""] >>
          ELSE <<>>) \o InviteErrorsOwed(Tail(log))

\* C2: InviteUsers looks every email up once, in list order, whatever
\* failed before; it invites exactly the users whose lookup succeeded; and
\* its error list holds one entry for each failed lookup and each invite
\* that failed with another error than already_in_channel or
\* cant_invite_self, and nothing else.
C2_InvitePartialTolerance ==
    \A p \in Procs :
        LET f == fr[p]
            lookups == SelectSeq(f.log, IsLookup)
        IN  f.op = "InviteUsers" =>
            /\ [k \in 1..Len(lookups) |-> lookups[k].arg] = SubSeq(f.emails, 1, Len(lookups))
            /\ f.pc = "done" => Len(lookups) = Len(f.emails)
            /\ \A k \in 1..Len(f.log) :
                 /\ f.log[k].call \in {"GetUserByEmail", "InviteUsersToConversation"}
                 /\ f.log[k].call = "InviteUsersToConversation" =>
                      /\ k > 1
                      /\ f.log[k-1].call = "GetUserByEmail"
                      /\ f.log[k-1].err = "nil"
                      /\ f.log[k-1].res[1].id = f.log[k].arg
                 /\ (f.log[k].call = "GetUserByEmail" /\ f.log[k].err = "nil") =>
                      IF k = Len(f.log) THEN f.pc = "InviteUsersToConversation"
                      ELSE f.log[k+1].call = "InviteUsersToConversation"
            /\ f.errorlist = InviteErrorsOwed(f.log)

\* Three emails: the first invited, the lookup of the second failed, the
\* third already in the channel; one error.
W_C2 ==
    \E p \in Procs :
        LET f == fr[p] IN
        /\ f.op = "InviteUsers" /\ f.pc = "done" /\ Len(f.emails) = 3
        /\ Len(f.log) = 5
        /\ f.log[2].call = "InviteUsersToConversation" /\ f.log[2].err = "nil"
        /\ f.log[3].err # "nil"
        /\ f.log[5].err = "already_in_channel"
        /\ Len(f.errorlist) = 1 /\ f.errorlist[1].email = f.emails[2]

KickedBy(log) ==
    { log[k].arg : k \in { j \in 1..Len(log) :
          log[j].call = "KickUserFromConversation" /\ log[j].err = "nil" } }

\* C3: the first remote call of RemoveUsers that fails ends the call with its
\* error: it is the last call issued; the member it failed on and every
\* member after it stay in the channel, and the members kicked before it stay
\* kicked.
C3_RemoveFailFast ==
    \A p \in Procs :
        LET f == fr[p] IN
        f.op = "RemoveUsers" =>
            \A k \in 1..Len(f.log) :
                f.log[k].err # "nil" =>
                    /\ k = Len(f.log)
                    /\ f.pc = "done"
                    /\ f.retErr = f.log[k].err
                    /\ remote.members =
                         SelectSeq(f.pre[1].members, LAMBDA m : m \notin KickedBy(f.log))
                    /\ \A j \in 1..Len(f.ids) :
                         j >= f.i => /\ f.ids[j] \notin KickedBy(f.log)
                                     /\ f.ids[j] \in MemberSet(remote.members)

\* A kick succeeded, the next failed, and an unwanted member after it is
\* still in the channel.
W_C3 ==
    \E p \in Procs :
        LET f == fr[p] IN
        /\ f.op = "RemoveUsers" /\ f.pc = "done" /\ f.retErr # "nil"
        /\ KickedBy(f.log) # {}
        /\ f.log[Len(f.log)].call = "KickUserFromConversation"
        /\ \E j \in 1..Len(f.ids) :
             /\ j > f.i
             /\ ~UserIsBot(f.ids[j])
             /\ \A k \in 1..Len(f.emails) : f.emails[k] # UserEmail(f.ids[j])
             /\ f.ids[j] \in MemberSet(remote.members)

\* C4: RemoveUsers issues no kick for a bot.
C4_NoBotKick ==
    \A p \in Procs :
        LET f == fr[p] IN
        f.op = "RemoveUsers" =>
            /\ \A k \in 1..Len(f.log) :
                 f.log[k].call = "KickUserFromConversation" => ~UserIsBot(f.log[k].arg)
            /\ f.pc = "KickUserFromConversation" => ~UserIsBot(f.user[1].id)

\* RemoveUsers ran to its end over a channel with a bot whose email is not
\* wanted: it kicked someone, and the bot is still a member.
W_C4 ==
    \E p \in Procs :
        LET f == fr[p] IN
        /\ f.op = "RemoveUsers" /\ f.pc = "done" /\ f.retErr = "nil"
        /\ KickedBy(f.log) # {}
        /\ \E j \in 1..Len(f.ids) :
             /\ UserIsBot(f.ids[j])
             /\ \A k \in 1..Len(f.emails) : f.emails[k] # UserEmail(f.ids[j])
             /\ j < Len(f.ids)
             /\ f.ids[j] \in MemberSet(remote.members)

\* C5: when a text of the fetched channel, unescaped, differs from the
\* spec's, IsChannelUpdated returns (true, nil) after the channel-info fetch
\* alone: no member listing, no user lookup.
C5_DriftOrdering ==
    \A p \in Procs :
        LET f == fr[p] IN
        ( /\ f.op = "IsChannelUpdated"
          /\ f.log # <<>>
          /\ f.log[1].err = "nil"
          /\ \/ UnescapeString(f.log[1].res[1].name) # f.cr.name
             \/ UnescapeString(f.log[1].res[1].topic) # f.cr.topic
             \/ UnescapeString(f.log[1].res[1].purpose) # f.cr.description )
        => /\ f.pc = "done"
           /\ f.retBool /\ f.retErr = "nil"
           /\ Len(f.log) = 1 /\ f.log[1].call = "GetConversationInfo"

\* The name alone differs: drift after one call.
W_C5 ==
    \E p \in Procs :
        LET f == fr[p] IN
        /\ f.op = "IsChannelUpdated" /\ f.pc = "done" /\ f.retBool
        /\ Len(f.log) = 1
        /\ UnescapeString(remote.name) # f.cr.name
        /\ UnescapeString(remote.topic) = f.cr.topic
        /\ UnescapeString(remote.purpose) = f.cr.description

\* Every email resolves to a member, and every member that is no bot has
\* one of the emails.
MembershipMatches(members, userEmails) ==
    /\ \A k \in 1..Len(userEmails) :
         \E u \in MemberSet(members) : UserEmail(u) = userEmails[k]
    /\ \A u \in MemberSet(members) :
         ~UserIsBot(u) => \E k \in 1..Len(userEmails) : userEmails[k] = UserEmail(u)

\* C6: when all its remote calls succeed, IsChannelUpdated returns false
\* exactly when the unescaped stored name, topic and description equal the
\* spec's and the membership matches; stored text that is the escaped form
\* of the spec's text is no drift.
C6_DriftVerdict ==
    \A p \in Procs :
        LET f == fr[p] IN
        ( /\ f.op = "IsChannelUpdated" /\ f.pc = "done"
          /\ \A k \in 1..Len(f.log) : f.log[k].err = "nil" )
        => LET observed == f.pre[1] IN
           /\ f.retBool =
                ~( /\ UnescapeString(observed.name) = f.cr.name
                   /\ UnescapeString(observed.topic) = f.cr.topic
                   /\ UnescapeString(observed.purpose) = f.cr.description
                   /\ MembershipMatches(observed.members, f.cr.users) )
           /\ ( /\ observed.name = EscapeText(f.cr.name)
                /\ observed.topic = EscapeText(f.cr.topic)
                /\ observed.purpose = EscapeText(f.cr.description)
                /\ MembershipMatches(observed.members, f.cr.users) )
              => ~f.retBool

\* No drift, with a topic stored escaped, a wanted member and a bot.
W_C6 ==
    \E p \in Procs :
        LET f == fr[p] IN
        /\ f.op = "IsChannelUpdated" /\ f.pc = "done"
        /\ ~f.retBool /\ f.retErr = "nil"
        /\ remote.topic # f.cr.topic
        /\ Len(f.cr.users) >= 1
        /\ "B1" \in MemberSet(remote.members)

\* C7: a remote call of IsChannelUpdated that fails ends the check with its
\* error and no verdict: it is the last call, the result is (false, err);
\* true never comes with an error, and a nil error never after a failure.
C7_DriftFailsClosed ==
    \A p \in Procs :
        LET f == fr[p] IN
        f.op = "IsChannelUpdated" =>
            /\ ~(f.retBool /\ f.retErr # "nil")
            /\ \A k \in 1..Len(f.log) :
                 f.log[k].err # "nil" =>
                     /\ k = Len(f.log)
                     /\ f.pc = "done"
                     /\ f.retErr = f.log[k].err
                     /\ ~f.retBool

\* The lookup of the second email failed after the member listing and a
\* first lookup.
W_C7 ==
    \E p \in Procs :
        LET f == fr[p] IN
        /\ f.op = "IsChannelUpdated" /\ f.pc = "done" /\ f.retErr # "nil"
        /\ Len(f.log) = 4
        /\ f.log[4].call = "GetUserByEmail"

\* The page a request of the log asked for held a channel of the name.
PageMatched(e, name) == \E j \in 1..Len(e.res.channels) : e.res.channels[j].name = name

\* C8: GetChannelByName asks for the first page first and then for the page
\* the last answer's cursor names: page k is its k-th request; it goes on
\* only after a page that answered without a match and with a cursor that
\* is not empty, and stops at the first page that fails, holds a match or
\* answers the empty cursor.
C8_PaginationOrder ==
    \A p \in Procs :
        LET f == fr[p] IN
        f.op = "GetChannelByName" =>
            /\ \A k \in 1..Len(f.log) :
                 /\ f.log[k].call = "GetConversations"
                 /\ PageOfCursor(f.log[k].arg) = k
                 /\ k = 1 => f.log[k].arg = <<>>
                 /\ k > 1 => /\ f.log[k].arg = f.log[k-1].res.nextCursor
                             /\ f.log[k-1].err = "nil"
                             /\ f.log[k-1].res.nextCursor # <<>>
                             /\ ~PageMatched(f.log[k-1], f.value)
            /\ (f.log # <<>>
                /\ \/ f.log[Len(f.log)].err # "nil"
                   \/ PageMatched(f.log[Len(f.log)], f.value)
                   \/ f.log[Len(f.log)].res.nextCursor = <<>>)
               => f.pc = "done"
            /\ f.pc = "done" => f.log # <<>>

\* A search that went through three pages to the empty cursor.
W_C8 ==
    \E p \in Procs :
        LET f == fr[p] IN
        /\ f.op = "GetChannelByName" /\ f.pc = "done"
        /\ Len(f.log) = 3 /\ Len(pages) = 3
        /\ f.log[3].err = "nil" /\ f.log[3].res.nextCursor = <<>>
        /\ ~PageMatched(f.log[3], f.value)

\* The places <<page, position>> of the channels of the name.
PlacesOf(name) ==
    UNION { { <<k, j>> : j \in { i \in 1..Len(pages[k]) : pages[k][i] = name } } :
            k \in 1..Len(pages) }

Earlier(a, b) == a[1] < b[1] \/ (a[1] = b[1] /\ a[2] <= b[2])

\* C9 as claimed: the first channel of the name, in page order and then in
\* the page's order; when no page holds one, an error that is not nil and is
\* not the duplicate-name error; the error of a failed page request as it is.
C9_FinderResult ==
    \A p \in Procs :
        LET f == fr[p] IN
        (f.op = "GetChannelByName" /\ f.pc = "done") =>
            IF f.log[Len(f.log)].err # "nil"
            THEN f.retChannel = <<>> /\ f.retErr = f.log[Len(f.log)].err
            ELSE IF PlacesOf(f.value) # {}
            THEN /\ f.retErr = "nil"
                 /\ f.retChannel # <<>>
                 /\ f.retChannel[1].name = f.value
                 /\ f.retChannel[1].id \in PlacesOf(f.value)
                 /\ \A pl \in PlacesOf(f.value) : Earlier(f.retChannel[1].id, pl)
            ELSE /\ f.retChannel = <<>>
                 /\ f.retErr \notin {"nil", ChannelAlreadyExistsError}

\* C10: IsValidChannel returns an error exactly when the spec has no users,
\* whatever its other fields are, and issues no remote call.
C10_Validation ==
    \A p \in Procs :
        LET f == fr[p] IN
        f.op = "IsValidChannel" =>
            /\ f.pc = "done"
            /\ (f.retErr # "nil") = (f.cr.users = <<>>)
            /\ f.log = <<>>
            /\ remote = f.pre[1]

\* A private spec with one user passed.
W_C10 ==
    \E p \in Procs :
        LET f == fr[p] IN
        /\ f.op = "IsValidChannel" /\ f.pc = "done"
        /\ Len(f.cr.users) = 1 /\ f.cr.private
        /\ f.retErr = "nil"

\* C11: with the texts matching and every email of the spec resolving to a
\* member, members that are bots and whose email is not in the spec make no
\* drift: when they are the only members outside the spec, IsChannelUpdated
\* returns (false, nil); and a verdict of drift never follows the user-info
\* of a bot.
C11_BotsNoDrift ==
    \A p \in Procs :
        LET f == fr[p]
            observed == f.pre[1]
        IN  ( /\ f.op = "IsChannelUpdated" /\ f.pc = "done"
              /\ \A k \in 1..Len(f.log) : f.log[k].err = "nil" )
            => /\ ( /\ UnescapeString(observed.name) = f.cr.name
                    /\ UnescapeString(observed.topic) = f.cr.topic
                    /\ UnescapeString(observed.purpose) = f.cr.description
                    /\ \A k \in 1..Len(f.cr.users) :
                         \E u \in MemberSet(observed.members) : UserEmail(u) = f.cr.users[k]
                    /\ \A u \in MemberSet(observed.members) :
                         (\A k \in 1..Len(f.cr.users) : f.cr.users[k] # UserEmail(u))
                             => UserIsBot(u) )
                  => (~f.retBool /\ f.retErr = "nil")
               /\ ( /\ f.log[Len(f.log)].call = "GetUserInfo"
                    /\ UserIsBot(f.log[Len(f.log)].arg) )
                  => ~f.retBool

\* No drift for a channel of a wanted member and a bot whose email is not in
\* the spec, the bot's user-info fetched.
W_C11 ==
    \E p \in Procs :
        LET f == fr[p] IN
        /\ f.op = "IsChannelUpdated" /\ f.pc = "done"
        /\ ~f.retBool /\ f.retErr = "nil"
        /\ Len(f.cr.users) >= 1
        /\ \A k \in 1..Len(f.cr.users) : f.cr.users[k] # "bot@co.com"
        /\ \E k \in 1..Len(f.log) :
             f.log[k].call = "GetUserInfo" /\ f.log[k].arg = "B1" /\ f.log[k].err = "nil"


\* The remote calls that ask the remote to change something.
MutatingCalls ==
    { "CreateConversation", "RenameConversation", "SetTopicOfConversation",
      "SetPurposeOfConversation", "ArchiveConversation", "UnArchiveConversation",
      "InviteUsersToConversation", "KickUserFromConversation" }

\* The remote calls of the pass's corrective operations, in the order issued.
CorrectiveLog == fr[2].log \o fr[3].log \o fr[4].log \o fr[5].log \o fr[6].log

Mutating(log) == SelectSeq(log, LAMBDA e : e.call \in MutatingCalls)

InScenario == desired[1] = ScenarioSpec /\ fr[1].pre = <<ScenarioChannel>>

\* The corrective operations have all returned, without error.
Corrected ==
    /\ \A k \in 2..6 : fr[k].pc = "done" /\ fr[k].retErr = "nil" /\ fr[k].errorlist = <<>>
    /\ fr[6].op = "RemoveUsers"

\* C12 as stated: in the scenario IsChannelUpdated reports drift, and the
\* corrective operations issue exactly one mutating remote call, the set-topic
\* write, and no rename, set-purpose or kick call.
C12_ScenarioOneCall ==
    InScenario =>
        /\ (fr[1].pc = "done" /\ fr[1].retErr = "nil") => fr[1].retBool
        /\ Corrected =>
             Mutating(CorrectiveLog) =
                 << Issued("SetTopicOfConversation", ScenarioSpec.topic, "nil", <<>>) >>

\* C12, amended: in the scenario IsChannelUpdated reports drift; the corrective
\* operations never issue a rename, set-purpose or kick call; and when they
\* have all returned without error they have issued exactly two mutating
\* calls, the set-topic write of the desired topic and the invite of U1,
\* which the remote refuses with already_in_channel, so that the topic is the
\* only thing changed on the remote.
C12_ScenarioOneWrite ==
    InScenario =>
        /\ (fr[1].pc = "done" /\ fr[1].retErr = "nil") => fr[1].retBool
        /\ \A k \in 1..Len(CorrectiveLog) :
               CorrectiveLog[k].call \notin
                   { "RenameConversation", "SetPurposeOfConversation",
                     "KickUserFromConversation" }
        /\ Corrected =>
             /\ Mutating(CorrectiveLog) =
                    << Issued("SetTopicOfConversation", ScenarioSpec.topic, "nil", <<>>),
                       Issued("InviteUsersToConversation", "U1", "already_in_channel", <<>>) >>
             /\ remote = [ScenarioChannel EXCEPT !.topic = ScenarioSpec.topic]

W_C12 ==
    /\ InScenario /\ Corrected
    /\ fr[1].retBool
    /\ remote.topic = ScenarioSpec.topic
    /\ Len(Mutating(CorrectiveLog)) = 2


\* No other caller has been in a call since p's call began.
Exclusive(p) ==
    /\ fr[p].solo
    /\ \A q \in DOMAIN fr \ {p} : Idle(q) /\ fr[q].solo

\* The channel with the attribute of setter `op` holding `value`.
WithAttr(op, channel, value) ==
    CASE op = "SetDescription" -> [channel EXCEPT !.purpose = value]
      [] op = "SetTopic" -> [channel EXCEPT !.topic = value]
      [] op = "RenameChannel" -> [channel EXCEPT !.name = value]

\* C13: with two callers at once, a remote call of a setter that no other
\* caller's call has overlapped writes on a fresh read (the channel it fetched
\* is still the remote channel), and when it ends the call without error the
\* remote attribute, unescaped, is the requested value and nothing else of
\* the channel has changed since the call began.  (The witness is the lost
\* update of two overlapping calls.)
C13_ExclusiveSetters ==
    [][\A p \in Reconcilers :
         ( /\ fr'[p] # fr[p]
           /\ fr[p].op \in SetterOps /\ fr[p].pc \notin {"idle", "done"}
           /\ Exclusive(p) )
         => /\ fr[p].pc \in WriteCalls => fr[p].channel = <<remote>>
            /\ (fr'[p].pc = "done" /\ fr'[p].retErr = "nil")
                 => /\ UnescapeString(StoredAttr(fr[p].op, remote')) = fr[p].value
                    /\ WithAttr(fr[p].op, remote', <<>>) = WithAttr(fr[p].op, fr[p].pre[1], <<>>)
      ]_vars

\* Two overlapping calls of the same setter both read the channel before
\* either wrote, both wrote and both returned without error: one of the two
\* requested values is not on the remote.
W_C13 ==
    \E p \in Reconcilers : \E q \in Reconcilers \ {p} :
        /\ fr[p].op \in SetterOps /\ fr[q].op = fr[p].op
        /\ fr[p].pc = "done" /\ fr[q].pc = "done"
        /\ fr[p].retErr = "nil" /\ fr[q].retErr = "nil"
        /\ Len(fr[p].log) = 2 /\ Len(fr[q].log) = 2
        /\ fr[p].log[1].res = fr[q].log[1].res
        /\ fr[p].value # fr[q].value
        /\ UnescapeString(StoredAttr(fr[p].op, remote)) # fr[p].value
        /\ UnescapeString(StoredAttr(fr[p].op, remote)) = fr[q].value


\* C14: a call of GetChannelCRFromChannel returns a new spec value whose
\* name, description, topic and private fields are the stored values of the
\* channel passed in, as stored, and whose users are its member IDs, as listed;
\* it leaves the channel passed in, the remote channel and every desired spec
\* as they were, and issues no remote call.
C14_Projector ==
    [][\A p \in Procs :
         (fr'[p] # fr[p] /\ fr'[p].op = "GetChannelCRFromChannel")
         => /\ fr'[p].pc = "done"
            /\ fr'[p].retCR = << [name |-> remote.name, description |-> remote.purpose,
                                  topic |-> remote.topic, private |-> remote.private,
                                  users |-> remote.members] >>
            /\ fr'[p].channel = <<remote>>
            /\ fr'[p].log = <<>>
            /\ remote' = remote
            /\ desired' = desired
      ]_vars

W_C14 ==
    \E p \in Procs :
        /\ fr[p].op = "GetChannelCRFromChannel" /\ fr[p].pc = "done"
        /\ fr[p].retCR # <<>>
        /\ fr[p].retCR[1].private
        /\ fr[p].retCR[1].users = <<"B1", "U1">>
        /\ UnescapeString(fr[p].retCR[1].topic) # fr[p].retCR[1].topic
        /\ fr[p].retCR[1] # desired[p]


\* The write a setter issues.
WriteCallOf(op) ==
    CASE op = "SetDescription" -> "SetPurposeOfConversation"
      [] op = "SetTopic" -> "SetTopicOfConversation"
      [] op = "RenameChannel" -> "RenameConversation"

\* C15: every setter call issues the channel-info fetch first, once, and then
\* at most one write; the write is issued exactly when the fetch succeeded and
\* the unescaped fetched value differs from the requested one, it is the
\* setter's own write and carries the requested value; a failed fetch ends the
\* call with its error, no channel and no write; a failed write ends the call
\* with its error and no channel.
C15_SetterProtocol ==
    \A p \in Procs :
        LET f == fr[p]
            fetched == f.log[1].err = "nil"
            differs == UnescapeString(StoredAttr(f.op, f.log[1].res[1])) # f.value
        IN  f.op \in SetterOps =>
            /\ f.log = <<>> <=> f.pc = "GetConversationInfo"
            /\ Len(f.log) <= 2
            /\ f.log # <<>> =>
                 /\ f.log[1].call = "GetConversationInfo"
                 /\ ~fetched => /\ f.pc = "done" /\ Len(f.log) = 1
                                /\ f.retErr = f.log[1].err /\ f.retChannel = <<>>
                 /\ (fetched /\ differs) <=> (Len(f.log) = 2 \/ f.pc = WriteCallOf(f.op))
                 /\ (fetched /\ differs /\ f.pc = "done") => Len(f.log) = 2
            /\ Len(f.log) = 2 =>
                 /\ f.pc = "done"
                 /\ f.log[2].call = WriteCallOf(f.op)
                 /\ f.log[2].arg = f.value
                 /\ f.log[2].err # "nil" => f.retErr = f.log[2].err /\ f.retChannel = <<>>

\* A RenameChannel whose fetch found another name and whose write failed.
W_C15 ==
    \E p \in Procs :
        /\ fr[p].op = "RenameChannel" /\ fr[p].pc = "done"
        /\ Len(fr[p].log) = 2
        /\ fr[p].log[2].call = "RenameConversation" /\ fr[p].log[2].err # "nil"
        /\ fr[p].retErr # "nil" /\ fr[p].retChannel = <<>>
        /\ remote = fr[p].pre[1]


\* The drift check that follows the corrective operations has returned, every
\* remote call of it having succeeded.
Rechecked ==
    /\ fr[7].op = "IsChannelUpdated" /\ fr[7].pc = "done"
    /\ \A k \in 1..Len(fr[7].log) : fr[7].log[k].err = "nil"

\* C16: when the corrective operations of a pass have all returned without
\* error (an empty error list for InviteUsers), the IsChannelUpdated that
\* follows, its remote calls succeeding, returns (false, nil).
C16_PassConverges ==
    (Corrected /\ Rechecked) => (~fr[7].retBool /\ fr[7].retErr = "nil")

\* The desired list names the user of the API token, who is not a member.
SelfWanted ==
    /\ SelfUser \notin MemberSet(fr[1].pre[1].members)
    /\ \E k \in 1..Len(desired[1].users) : desired[1].users[k] = UserEmail(SelfUser)

\* The pass converges from every state but those of SelfWanted.
PassConvergesUnlessSelf ==
    (Corrected /\ Rechecked /\ ~SelfWanted) => (~fr[7].retBool /\ fr[7].retErr = "nil")

\* The pass never converges from a state of SelfWanted.
PassDriftsWhenSelf ==
    (Corrected /\ Rechecked /\ SelfWanted) => (fr[7].retBool /\ fr[7].retErr = "nil")


\* The emails of the caller's desired list.
DesiredEmails(p) == { desired[p].users[k] : k \in 1..Len(desired[p].users) }

\* C17: RemoveUsers issues no invite and InviteUsers no kick; every kick of
\* RemoveUsers is for a user who was a member when the call began and had not
\* been kicked by it, is not a bot and whose email is none of the desired
\* emails; and every member whose email is in the desired list when a call
\* of either operation begins is a member in every state of that call, so no
\* sequence of such calls takes one out of the channel.
C17_DesiredMembersStay ==
    \A p \in Procs :
        LET f == fr[p] IN
        f.op \in {"InviteUsers", "RemoveUsers"} =>
            /\ f.op = "RemoveUsers" =>
                 \A k \in 1..Len(f.log) : f.log[k].call # "InviteUsersToConversation"
            /\ f.op = "InviteUsers" =>
                 \A k \in 1..Len(f.log) : f.log[k].call # "KickUserFromConversation"
            /\ \A k \in 1..Len(f.log) :
                 f.log[k].call = "KickUserFromConversation" =>
                    /\ f.log[k].arg \in MemberSet(f.pre[1].members)
                    /\ f.log[k].arg \notin KickedBy(SubSeq(f.log, 1, k - 1))
                    /\ ~UserIsBot(f.log[k].arg)
                    /\ UserEmail(f.log[k].arg) \notin DesiredEmails(p)
            /\ \A u \in MemberSet(f.pre[1].members) :
                 UserEmail(u) \in DesiredEmails(p) => u \in MemberSet(remote.members)

\* A RemoveUsers that kicked a member and, having looked at a desired member,
\* left them in the channel.
W_C17 ==
    \E p \in Procs :
        /\ fr[p].op = "RemoveUsers" /\ fr[p].pc = "done" /\ fr[p].retErr = "nil"
        /\ KickedBy(fr[p].log) # {}
        /\ \E k \in 1..Len(fr[p].log) :
              /\ fr[p].log[k].call = "GetUserInfo" /\ fr[p].log[k].err = "nil"
              /\ ~UserIsBot(fr[p].log[k].arg)
              /\ UserEmail(fr[p].log[k].arg) \in DesiredEmails(p)
              /\ fr[p].log[k].arg \in MemberSet(remote.members)


ReadOnlyOps == { "IsChannelUpdated", "GetChannel", "GetChannelByName", "GetUsersInChannel" }

\* C18: in every state of a call of IsChannelUpdated, GetChannel,
\* GetChannelByName or GetUsersInChannel, whatever its remote calls answered,
\* the call has issued no create, rename, set-topic, set-purpose, archive,
\* unarchive, invite or kick call, and the remote channel, its members
\* included, is the one the call found when it began.
C18_ReadOnly ==
    \A p \in Procs :
        LET f == fr[p] IN
        f.op \in ReadOnlyOps =>
            /\ \A k \in 1..Len(f.log) : f.log[k].call \notin MutatingCalls
            /\ remote = f.pre[1]

\* An IsChannelUpdated that found a member to remove, returned drift and left
\* that member in the channel.
W_C18 ==
    \E p \in Procs :
        /\ fr[p].op = "IsChannelUpdated" /\ fr[p].pc = "done"
        /\ fr[p].retBool
        /\ fr[p].log # <<>> /\ fr[p].log[Len(fr[p].log)].call = "GetUserInfo"
        /\ fr[p].log[Len(fr[p].log)].arg \in MemberSet(remote.members)


\* C19: against a collection of N pages a call of GetChannelByName issues at
\* most N page requests; while it has not returned it has issued fewer than
\* N and its next request can be made; and it returns only after a request
\* that failed (with that error and no channel), or whose page held the name
\* (with a channel and no error), or that answered the empty cursor without a
\* match (with no channel and the error of its last line).
C19_SearchTerminates ==
    \A p \in Procs :
        LET f == fr[p]
            last == f.log[Len(f.log)]
        IN  f.op = "GetChannelByName" =>
            /\ Len(f.log) <= Len(pages)
            /\ f.pc # "done" => /\ Len(f.log) < Len(pages)
                                /\ ENABLED GetChannelByNamePage(p)
            /\ f.pc = "done" =>
                 /\ f.log # <<>>
                 /\ \/ /\ last.err # "nil"
                       /\ f.retErr = last.err /\ f.retChannel = <<>>
                    \/ /\ last.err = "nil" /\ PageMatched(last, f.value)
                       /\ f.retErr = "nil" /\ f.retChannel # <<>>
                    \/ /\ last.err = "nil" /\ ~PageMatched(last, f.value)
                       /\ last.res.nextCursor = <<>>
                       /\ f.retErr = ChannelAlreadyExistsError /\ f.retChannel = <<>>

\* A search that asked for every page of a collection of several, each once,
\* and ended on the empty cursor without a match.
W_C19 ==
    \E p \in Procs :
        LET f == fr[p] IN
        /\ f.op = "GetChannelByName" /\ f.pc = "done"
        /\ Len(pages) > 1 /\ Len(f.log) = Len(pages)
        /\ f.retErr = ChannelAlreadyExistsError /\ f.retChannel = <<>>
        /\ pages[1] # <<>>


\* The same as a liveness property: when a page request that can be made is
\* eventually made, every search that has begun returns.
SpecFinderFair == SpecFinder /\ \A p \in Procs : WF_vars(GetChannelByNamePage(p))

SearchReturns ==
    \A p \in Procs : (fr[p].pc = "GetConversations") ~> (fr[p].pc = "done")

====
